---------------------------- MODULE Spec2Model ----------------------------
(***************************************************************************)
(* A model of the 2048 engine of react-three-2048: the grid utilities of   *)
(* src/src/gridUtils.ts, the reducer, the phase handlers and the           *)
(* animation-completion callback of src/src/use2048.ts, and the animations *)
(* the Box component of src/src/Box.tsx starts and kills.                  *)
(*                                                                         *)
(* JavaScript arrays are 0-based; sequences here are 1-based, so the       *)
(* element at JavaScript index i is the element i + 1 of the sequence.     *)
(* Positions {x, y} keep the 0-based coordinates of the source.            *)
(***************************************************************************)
EXTENDS Integers, Sequences, FiniteSets

(***************************************************************************)
(* Bounds of the model.                                                    *)
(***************************************************************************)
\* the size handed to use2048 (GRID_SIZE is 6 in consts.ts; any size works)
Size == 2
\* directional inputs accepted in one game before the keyboard falls silent
MaxRounds == 2
\* RESTARTs from outside the phase handlers explored in one behaviour
MaxRestarts == 1
\* length of the lines the merge resolver is applied to on its own
LineLen == 4

(***************************************************************************)
(* Data model (src/unnamed/part_000: Block, Cell, Grid, Vector, Phase).    *)
(***************************************************************************)
\* null / undefined where a Block is expected
NoBlock == [id |-> 0, value |-> 0, isNew |-> FALSE]

Phases ==
  {"INIT", "INPUT", "ACTIVE", "TEST_WON", "WON", "SPAWN", "TEST_GAME_OVER", "GAME_OVER"}

\* undefined where a Vector is expected (the item of an empty array)
NoPosition == [x |-> -1, y |-> -1]

makeEmptyCell == [block |-> NoBlock, mergedBlock |-> NoBlock]

makeNewBlock(id, value) == [id |-> id, value |-> value, isNew |-> TRUE]

makeEmptyGrid(size) ==
  [size |-> size, rows |-> [y \in 1..size |-> [x \in 1..size |-> makeEmptyCell]]]

\* rows.map(row => row.slice()): the same cells in new row arrays
cloneGrid(grid) == [size |-> grid.size, rows |-> [y \in 1..grid.size |-> grid.rows[y]]]

getCellAt(position, grid) == grid.rows[position.y + 1][position.x + 1]

setCellAt(position, cell, grid) ==
  [grid EXCEPT !.rows[position.y + 1][position.x + 1] = cell]

setBlockAt(position, block, grid) ==
  [grid EXCEPT !.rows[position.y + 1][position.x + 1].block = block]

pluckBlocks(cells) == [i \in 1..Len(cells) |-> cells[i].block]

getColumnAt(x, grid) == [y \in 1..grid.size |-> grid.rows[y][x + 1]]

setColumnAt(x, column, grid) ==
  [grid EXCEPT !.rows = [y \in 1..grid.size |-> [grid.rows[y] EXCEPT ![x + 1] = column[y]]]]

getRowAt(y, grid) == grid.rows[y + 1]

setRowAt(y, row, grid) == [grid EXCEPT !.rows[y + 1] = row]

\* the order in which iterateCells visits the positions: x is the outer loop
\* variable and y the inner one
IterPositions(size) ==
  [k \in 1..(size * size) |-> [x |-> (k - 1) \div size, y |-> (k - 1) % size]]

\* updateCells with the cells the updater returns, updated[k] for the k-th
\* position visited: each cell is read and replaced once, at its own position
RECURSIVE updateCellsFrom(_, _, _)
updateCellsFrom(grid, updated, k) ==
  IF k > Len(updated) THEN grid
  ELSE updateCellsFrom(setCellAt(IterPositions(grid.size)[k], updated[k], grid), updated, k + 1)

updateCells(grid, updated) == updateCellsFrom(grid, updated, 1)

IsEmptyCellPosition(grid, position) == getCellAt(position, grid).block = NoBlock

findEmptyCellPositions(grid) ==
  SelectSeq(IterPositions(grid.size), LAMBDA position : IsEmptyCellPosition(grid, position))

hasNewCell(grid) ==
  \E k \in 1..(grid.size * grid.size) : getCellAt(IterPositions(grid.size)[k], grid).block.isNew

(***************************************************************************)
(* Merge resolver.                                                         *)
(***************************************************************************)
\* blocks[index] of JavaScript: undefined outside the array
BlockAtIndex(blocks, index) ==
  IF index >= 0 /\ index < Len(blocks) THEN blocks[index + 1] ELSE NoBlock

\* mutant: a group is put first whichever way the blocks are scanned
addToBlockPairs_AlwaysUnshift(direction, blockPair, blockPairs) == <<blockPair>> \o blockPairs

\* mutant: a group is appended whichever way the blocks are scanned
addToBlockPairs_AlwaysPush(direction, blockPair, blockPairs) == Append(blockPairs, blockPair)

addToBlockPairs(direction, blockPair, blockPairs) ==
  IF direction = 1 THEN <<blockPair>> \o blockPairs ELSE Append(blockPairs, blockPair)

\* mutant: the test that a block has been paired is left out
IsPaired_Never(lastBlock, pairedBlocks) == FALSE

\* mutant: once a pair is found, no other group is formed
IsPaired_AfterAnyPair(lastBlock, pairedBlocks) == pairedBlocks # {}

\* pairedBlocks.includes(lastBlock)
IsPaired(lastBlock, pairedBlocks) == lastBlock \in pairedBlocks

\* one pass of the for loop of findBlockPairs, i = 0 .. blocks.length
RECURSIVE findBlockPairsLoop(_, _, _, _, _)
findBlockPairsLoop(direction, blocks, i, blockPairs, pairedBlocks) ==
  IF i > Len(blocks) THEN [blockPairs |-> blockPairs, pairedBlocks |-> pairedBlocks]
  ELSE
    LET index == IF direction = 1 THEN Len(blocks) - i - 1 ELSE i
        lastIndex == index + direction
        block == BlockAtIndex(blocks, index)
        lastBlock == BlockAtIndex(blocks, lastIndex)
    IN  IF lastBlock = NoBlock \/ IsPaired(lastBlock, pairedBlocks)
        THEN findBlockPairsLoop(direction, blocks, i + 1, blockPairs, pairedBlocks)
        ELSE IF block # NoBlock /\ block.value = lastBlock.value
        THEN findBlockPairsLoop(direction, blocks, i + 1,
               addToBlockPairs(direction,
                 IF direction = 1 THEN <<lastBlock, block>> ELSE <<block, lastBlock>>,
                 blockPairs),
               pairedBlocks \cup {block, lastBlock})
        ELSE findBlockPairsLoop(direction, blocks, i + 1,
               addToBlockPairs(direction, <<lastBlock>>, blockPairs), pairedBlocks)

findBlockPairs(direction, blocks) ==
  LET res == findBlockPairsLoop(direction, blocks, 0, <<>>, {})
  IN  [hasBlockPairs |-> res.pairedBlocks # {}, blockPairs |-> res.blockPairs]

\* mutant: the pair is not reversed for direction 1
OrderedPair_NoReverse(direction, cellBlockPairs) == cellBlockPairs

\* the pair a merged cell is built from: [baseBlock, blockToMerge]
OrderedPair(direction, cellBlockPairs) ==
  IF direction = 1 THEN <<cellBlockPairs[2], cellBlockPairs[1]>> ELSE cellBlockPairs

\* mutant: the merged block keeps the base block's value
MergeCell_KeepsBaseValue(direction, cellBlockPairs) ==
  [block |-> OrderedPair(direction, cellBlockPairs)[1],
   mergedBlock |-> OrderedPair(direction, cellBlockPairs)[2]]

\* mutant: the base block is kept as the mergedBlock too
MergeCell_BaseAsMerged(direction, cellBlockPairs) ==
  LET baseBlock == OrderedPair(direction, cellBlockPairs)[1]
      blockToMerge == OrderedPair(direction, cellBlockPairs)[2]
  IN  [block |-> [baseBlock EXCEPT !.value = baseBlock.value + blockToMerge.value],
       mergedBlock |-> baseBlock]

MergeCell(direction, cellBlockPairs) ==
  LET baseBlock == OrderedPair(direction, cellBlockPairs)[1]
      blockToMerge == OrderedPair(direction, cellBlockPairs)[2]
  IN  [block |-> [baseBlock EXCEPT !.value = baseBlock.value + blockToMerge.value],
       mergedBlock |-> blockToMerge]

\* mutant: the groups are laid out from index 0 in both directions
blockPairIndex_FromStart(direction, cellCount, length, index) == index

\* the index in blockPairs of the group the cell at index is built from
blockPairIndex(direction, cellCount, length, index) ==
  IF direction = 1 THEN cellCount - length + index ELSE index

resolveColumnOrRowInDirection(direction, cells) ==
  LET blocksWithValues == SelectSeq(pluckBlocks(cells), LAMBDA block : block # NoBlock)
      blockPairs == findBlockPairs(direction, blocksWithValues).blockPairs
      cellCount == Len(blockPairs)
      pairIndex(index) == blockPairIndex(direction, cellCount, Len(cells), index)
      cellBlockPairs(index) ==
        IF pairIndex(index) >= 0 /\ pairIndex(index) < cellCount
        THEN blockPairs[pairIndex(index) + 1] ELSE <<NoBlock>>
  IN  IF Len(blocksWithValues) = 0 THEN cells
      ELSE [i \in 1..Len(cells) |->
             IF Len(cellBlockPairs(i - 1)) = 1
             THEN [cells[i] EXCEPT !.block = cellBlockPairs(i - 1)[1], !.mergedBlock = NoBlock]
             ELSE MergeCell(direction, cellBlockPairs(i - 1))]

RECURSIVE resolveColumnsFrom(_, _, _)
resolveColumnsFrom(directionY, nextGrid, x) ==
  IF x >= nextGrid.size THEN nextGrid
  ELSE resolveColumnsFrom(directionY,
         setColumnAt(x, resolveColumnOrRowInDirection(directionY, getColumnAt(x, nextGrid)),
                     nextGrid),
         x + 1)

RECURSIVE resolveRowsFrom(_, _, _)
resolveRowsFrom(directionX, nextGrid, y) ==
  IF y >= nextGrid.size THEN nextGrid
  ELSE resolveRowsFrom(directionX,
         setRowAt(y, resolveColumnOrRowInDirection(directionX, getRowAt(y, nextGrid)), nextGrid),
         y + 1)

\* resolveCellsInDirection throws 'Either direction.x or direction.y must be 0'
resolveCellsInDirectionThrows(direction) == direction.x # 0 /\ direction.y # 0

resolveCellsInDirection(direction, grid) ==
  IF direction.x = 0 THEN resolveColumnsFrom(direction.y, cloneGrid(grid), 0)
  ELSE IF direction.y = 0 THEN resolveRowsFrom(direction.x, cloneGrid(grid), 0)
  ELSE grid

(***************************************************************************)
(* Terminal-state detector.                                                *)
(***************************************************************************)
\* mutant: the rows are not tested
hasLost_ColumnsOnly(grid) ==
  /\ Len(findEmptyCellPositions(grid)) = 0
  /\ \A x \in 0..(grid.size - 1) :
        ~findBlockPairs(1, pluckBlocks(getColumnAt(x, grid))).hasBlockPairs

hasLost(grid) ==
  /\ Len(findEmptyCellPositions(grid)) = 0
  /\ \A x \in 0..(grid.size - 1) :
        ~findBlockPairs(1, pluckBlocks(getColumnAt(x, grid))).hasBlockPairs
  /\ \A y \in 0..(grid.size - 1) :
        ~findBlockPairs(1, pluckBlocks(getRowAt(y, grid))).hasBlockPairs

RECURSIVE maxBlockValueFrom(_, _, _)
maxBlockValueFrom(grid, k, maxBlockValue) ==
  IF k > grid.size * grid.size THEN maxBlockValue
  ELSE LET value == getCellAt(IterPositions(grid.size)[k], grid).block.value
       IN  maxBlockValueFrom(grid, k + 1, IF value > maxBlockValue THEN value ELSE maxBlockValue)

WIN_VALUE == 2048

\* mutant: the win is looked for at 4096
hasWon_At4096(grid) == maxBlockValueFrom(grid, 1, 0) = 2 * WIN_VALUE

hasWon(grid) == maxBlockValueFrom(grid, 1, 0) = WIN_VALUE

(***************************************************************************)
(* The reducer (use2048.ts).                                               *)
(***************************************************************************)
\* mutant: the block is made with makeNewBlock's default value
initReducer_DefaultValue(size, x, y, id) ==
  [phase |-> "INIT",
   grid |-> setBlockAt([x |-> x, y |-> y], makeNewBlock(id, 1), makeEmptyGrid(size))]

\* initReducer, with the two numbers randomIntInclusive returns and the uuid
initReducer(size, x, y, id) ==
  [phase |-> "INIT",
   grid |-> setBlockAt([x |-> x, y |-> y], makeNewBlock(id, 2), makeEmptyGrid(size))]

\* mutant: the updater clears isNew and keeps the mergedBlock
ClearTransientCell_KeepsMerged(cell) ==
  IF cell.block = NoBlock THEN cell ELSE [cell EXCEPT !.block.isNew = FALSE]

\* the updater CLEAR_TRANSIENT_STATE hands to updateCells
ClearTransientCell(cell) ==
  IF cell.mergedBlock = NoBlock /\ ~cell.block.isNew THEN cell
  ELSE [block |-> [cell.block EXCEPT !.isNew = FALSE], mergedBlock |-> NoBlock]

\* the reducer throws: an invalid direction, or a block set at an undefined
\* position (TypeError reading position.y)
reducerThrows(state, action) ==
  \/ action.type = "SET_MOVED_DIRECTION" /\ resolveCellsInDirectionThrows(action.direction)
  \/ action.type = "ADD_NEW_BLOCK" /\ action.position = NoPosition

reducer(state, action) ==
  CASE action.type = "SET_PHASE" -> [state EXCEPT !.phase = action.phase]
    [] action.type = "SET_MOVED_DIRECTION" ->
         [phase |-> "ACTIVE", grid |-> resolveCellsInDirection(action.direction, state.grid)]
    [] action.type = "ADD_NEW_BLOCK" ->
         [state EXCEPT !.grid = setBlockAt(action.position, action.block, cloneGrid(state.grid))]
    [] action.type = "CLEAR_TRANSIENT_STATE" ->
         [phase |-> action.nextPhase,
          grid |-> updateCells(cloneGrid(state.grid),
                     [k \in 1..(state.grid.size * state.grid.size) |->
                        ClearTransientCell(getCellAt(IterPositions(state.grid.size)[k],
                                                     state.grid))])]
    [] action.type = "RESTART" -> initReducer(state.grid.size, action.x, action.y, action.id)

\* the grid of the state the reducer was applied to, as it reads once the
\* reducer has returned.  cloneGrid copies the row arrays and shares the cell
\* objects; setColumnAt, setRowAt and setCellAt store cells in the clone's rows,
\* while setBlockAt assigns the block field of the cell it finds there, the
\* cell the state's own rows hold too
reducerLeaves(state, action) ==
  IF action.type = "ADD_NEW_BLOCK"
  THEN setBlockAt(action.position, action.block, state.grid)
  ELSE state.grid

KEY_DIRECTION_MAP ==
  [ArrowLeft |-> [x |-> -1, y |-> 0], ArrowRight |-> [x |-> 1, y |-> 0],
   ArrowUp |-> [x |-> 0, y |-> -1], ArrowDown |-> [x |-> 0, y |-> 1]]

\* keys the keyboard can send: the four arrows and one key the map lacks
Keys == {"ArrowLeft", "ArrowRight", "ArrowUp", "ArrowDown", "Enter"}

\* useBoxViewData: the visible entities, a block and then its mergedBlock
RECURSIVE boxViewDataFrom(_, _)
boxViewDataFrom(grid, k) ==
  IF k > grid.size * grid.size THEN <<>>
  ELSE LET cell == getCellAt(IterPositions(grid.size)[k], grid)
           position == IterPositions(grid.size)[k]
           entities ==
             IF cell.block = NoBlock THEN <<>>
             ELSE <<[id |-> cell.block.id, value |-> cell.block.value,
                     isNew |-> cell.block.isNew, position |-> position, isMerged |-> FALSE]>>
                  \o (IF cell.mergedBlock = NoBlock THEN <<>>
                      ELSE <<[id |-> cell.mergedBlock.id, value |-> cell.mergedBlock.value,
                              isNew |-> cell.mergedBlock.isNew, position |-> position,
                              isMerged |-> TRUE]>>)
       IN  entities \o boxViewDataFrom(grid, k + 1)

useBoxViewData(grid) == boxViewDataFrom(grid, 1)

(***************************************************************************)
(* State.                                                                  *)
(***************************************************************************)
VARIABLES
  phase,                   \* state.phase of the reducer
  grid,                    \* state.grid of the reducer
  animationCompleteCount,  \* the ref of useBoxAnimationsCompleteCallback
  running,                 \* ids of the entities whose Box has a tween running
  fault,                   \* what the last step threw: "none", "protocol", "reducer"
  rounds,                  \* directional inputs taken in this game
  restarts,                \* RESTARTs dispatched from outside the phase handlers
  lastEvent,               \* history: the last event delivered and the phase it met
  staleGrid,               \* history: the grid of the state the reducer last ran on,
                           \* as the memory holds it once the reducer has returned
  lineDir, lineIn, lineOut,   \* a line, a direction and the line resolved (SpecLine)
  boardIn, boardCall, boardOut \* a grid, a call of a grid utility and its result (SpecBoard)

gameVars == <<phase, grid, animationCompleteCount, running, fault, rounds, restarts, lastEvent,
              staleGrid>>

lineVars == <<lineDir, lineIn, lineOut>>

boardVars == <<boardIn, boardCall, boardOut>>

vars == <<phase, grid, animationCompleteCount, running, fault, rounds, restarts, lastEvent,
          staleGrid, lineDir, lineIn, lineOut, boardIn, boardCall, boardOut>>

state == [phase |-> phase, grid |-> grid]

Cells(g) == {getCellAt(IterPositions(g.size)[k], g) : k \in 1..(g.size * g.size)}

\* ids held by the grid, as a block or as a mergedBlock
UsedIds(g) ==
  {cell.block.id : cell \in Cells(g)} \cup {cell.mergedBlock.id : cell \in Cells(g)}

\* uuidv4(): an id no entity of the grid carries (the least one, ids being opaque)
FreshId(g) == CHOOSE id \in 1..(g.size * g.size + 1) :
                /\ id \notin UsedIds(g)
                /\ \A other \in 1..(id - 1) : other \in UsedIds(g)

\* boxViewData.length
boxCount(g) == Len(useBoxViewData(g))

(***************************************************************************)
(* Box.tsx: the tweens a render starts.  useSpawnAnimation starts one for  *)
(* an entity that is new when the phase is SPAWN or INIT,                  *)
(* useUpdateAnimation one for every entity when the phase is ACTIVE; the   *)
(* effects' cleanups kill the tweens of the render before.                 *)
(***************************************************************************)
StartedAnimations(p, g) ==
  LET view == useBoxViewData(g)
  IN  IF p \in {"SPAWN", "INIT"} THEN {view[k].id : k \in {j \in 1..Len(view) : view[j].isNew}}
      ELSE IF p = "ACTIVE" THEN {view[k].id : k \in 1..Len(view)}
      ELSE {}

(***************************************************************************)
(* dispatch: the reducer runs on the action; when it throws, the render    *)
(* fails and the state is left as it was.  A new state is rendered, and    *)
(* the Boxes restart their tweens.                                         *)
(***************************************************************************)
Dispatch(action) ==
  IF reducerThrows(state, action)
  THEN /\ fault' = "reducer"
       /\ UNCHANGED <<phase, grid, running, staleGrid>>
  ELSE LET nextState == reducer(state, action)
       IN  /\ fault' = "none"
           /\ phase' = nextState.phase
           /\ grid' = nextState.grid
           /\ staleGrid' = reducerLeaves(state, action)
           /\ running' = StartedAnimations(nextState.phase, nextState.grid)

\* once the reducer has thrown, the component tree is gone
Alive == fault # "reducer"

\* mutant: ACTIVE advances past TEST_WON
nextPhaseMap_SkipTestWon(p) ==
  CASE p = "INIT" -> "INPUT"
    [] p = "ACTIVE" -> "SPAWN"
    [] p = "SPAWN" -> "TEST_GAME_OVER"
    [] OTHER -> "undefined"

\* mutant: the map has an entry for INPUT
nextPhaseMap_WithInput(p) ==
  CASE p = "INIT" -> "INPUT"
    [] p = "INPUT" -> "ACTIVE"
    [] p = "ACTIVE" -> "TEST_WON"
    [] p = "SPAWN" -> "TEST_GAME_OVER"
    [] OTHER -> "undefined"

nextPhaseMap(p) ==
  CASE p = "INIT" -> "INPUT"
    [] p = "ACTIVE" -> "TEST_WON"
    [] p = "SPAWN" -> "TEST_GAME_OVER"
    [] OTHER -> "undefined"

\* mutant: one completion is awaited in every phase
totalCompleteCount_AlwaysOne(p, count) == 1

\* spawn total animation complete is always 1
totalCompleteCount(p, count) == IF p = "ACTIVE" THEN count ELSE 1

\* mutant: the counter is not reset when the expected count is reached
handleBoxAnimationComplete_NoReset(stillRunning) ==
  IF animationCompleteCount + 1 = totalCompleteCount(phase, boxCount(grid))
  THEN /\ animationCompleteCount' = animationCompleteCount + 1
       /\ IF nextPhaseMap(phase) = "undefined"
          THEN /\ fault' = "protocol"
               /\ running' = stillRunning
               /\ UNCHANGED <<phase, grid, staleGrid>>
          ELSE Dispatch([type |-> "CLEAR_TRANSIENT_STATE", nextPhase |-> nextPhaseMap(phase)])
  ELSE /\ animationCompleteCount' = animationCompleteCount + 1
       /\ fault' = "none"
       /\ running' = stillRunning
       /\ UNCHANGED <<phase, grid, staleGrid>>

\* the callback useBoxAnimationsCompleteCallback returns, for the render of
\* the current phase and boxCount; stillRunning are the tweens left running
\* when the callback dispatches nothing
handleBoxAnimationComplete(stillRunning) ==
  IF animationCompleteCount + 1 = totalCompleteCount(phase, boxCount(grid))
  THEN /\ animationCompleteCount' = 0
       /\ IF nextPhaseMap(phase) = "undefined"
          THEN /\ fault' = "protocol"
               /\ running' = stillRunning
               /\ UNCHANGED <<phase, grid, staleGrid>>
          ELSE Dispatch([type |-> "CLEAR_TRANSIENT_STATE", nextPhase |-> nextPhaseMap(phase)])
  ELSE /\ animationCompleteCount' = animationCompleteCount + 1
       /\ fault' = "none"
       /\ running' = stillRunning
       /\ UNCHANGED <<phase, grid, staleGrid>>

(***************************************************************************)
(* Actions.                                                                *)
(***************************************************************************)
\* the tween of entity id completes and calls onAnimationComplete
AnimationComplete(id) ==
  /\ Alive
  /\ id \in running
  /\ handleBoxAnimationComplete(running \ {id})
  /\ lastEvent' = [kind |-> "complete", phase |-> phase]
  /\ UNCHANGED <<rounds, restarts, lineVars, boardVars>>

\* mutant: the listener is never removed
ListenerAttached_Always == TRUE

\* only allow user interaction during INPUT phase: the INPUT handler adds the
\* keydown listener and its cleanup removes it
ListenerAttached == phase = "INPUT"

\* a keydown event
KeyDown(key) ==
  /\ Alive
  /\ IF ListenerAttached /\ key \in DOMAIN KEY_DIRECTION_MAP
     THEN /\ rounds < MaxRounds
          /\ Dispatch([type |-> "SET_MOVED_DIRECTION", direction |-> KEY_DIRECTION_MAP[key]])
          /\ rounds' = rounds + 1
     ELSE /\ fault' = "none"
          /\ UNCHANGED <<phase, grid, running, rounds, staleGrid>>
  /\ lastEvent' = [kind |-> "key", phase |-> phase]
  /\ UNCHANGED <<animationCompleteCount, restarts, lineVars, boardVars>>

TestWonHandler ==
  /\ Alive
  /\ phase = "TEST_WON"
  /\ Dispatch([type |-> "SET_PHASE", phase |-> IF hasWon(grid) THEN "WON" ELSE "SPAWN"])
  /\ lastEvent' = [kind |-> "handler", phase |-> phase]
  /\ UNCHANGED <<animationCompleteCount, rounds, restarts, lineVars, boardVars>>

\* arrayRandomItem: any item of the array, undefined when it is empty
arrayRandomItems(arr) == IF Len(arr) = 0 THEN {NoPosition} ELSE {arr[k] : k \in 1..Len(arr)}

SpawnHandler ==
  /\ Alive
  /\ phase = "SPAWN"
  /\ IF hasNewCell(grid)
     THEN /\ fault' = "none"
          /\ UNCHANGED <<phase, grid, running, staleGrid>>
     ELSE \E position \in arrayRandomItems(findEmptyCellPositions(grid)) :
            Dispatch([type |-> "ADD_NEW_BLOCK", position |-> position,
                      block |-> makeNewBlock(FreshId(grid), 2)])
  /\ lastEvent' = [kind |-> "handler", phase |-> phase]
  /\ UNCHANGED <<animationCompleteCount, rounds, restarts, lineVars, boardVars>>

\* mutant: the game is never found lost
TestGameOverHandler_NeverLost ==
  /\ Alive
  /\ phase = "TEST_GAME_OVER"
  /\ Dispatch([type |-> "CLEAR_TRANSIENT_STATE", nextPhase |-> "INPUT"])
  /\ lastEvent' = [kind |-> "handler", phase |-> phase]
  /\ UNCHANGED <<animationCompleteCount, rounds, restarts, lineVars, boardVars>>

TestGameOverHandler ==
  /\ Alive
  /\ phase = "TEST_GAME_OVER"
  /\ Dispatch(IF hasLost(grid) THEN [type |-> "SET_PHASE", phase |-> "GAME_OVER"]
              ELSE [type |-> "CLEAR_TRANSIENT_STATE", nextPhase |-> "INPUT"])
  /\ lastEvent' = [kind |-> "handler", phase |-> phase]
  /\ UNCHANGED <<animationCompleteCount, rounds, restarts, lineVars, boardVars>>

\* the WON and GAME_OVER handlers: the alert is acknowledged, RESTART dispatched
AcknowledgeHandler ==
  /\ Alive
  /\ phase \in {"WON", "GAME_OVER"}
  /\ \E x \in 0..(grid.size - 1), y \in 0..(grid.size - 1) :
       Dispatch([type |-> "RESTART", x |-> x, y |-> y, id |-> 1])
  /\ rounds' = 0
  /\ lastEvent' = [kind |-> "handler", phase |-> phase]
  /\ UNCHANGED <<animationCompleteCount, restarts, lineVars, boardVars>>

(***************************************************************************)
(* Initial states: a game just constructed (initReducer), or a game in     *)
(* progress that awaits input.                                             *)
(***************************************************************************)
Pow2(n) == IF n = 0 THEN 1 ELSE IF n = 1 THEN 2 ELSE IF n = 2 THEN 4 ELSE IF n = 3 THEN 8
           ELSE IF n = 4 THEN 16 ELSE 32

\* the value at {x, y} in a game in progress (0: an empty cell):
\*   "near win": two 1024 blocks side by side in the first row;
\*   "near two wins": two rows of two 1024 blocks, one above the other;
\*   "full columns": a full board whose columns are constant and whose rows
\*                   hold no equal pair;
\*   "chequered": a chequered board of 2 and 4 with the last cell empty
BoardValue(board, x, y) ==
  CASE board = "near win" -> IF y = 0 /\ x \in {0, 1} THEN 1024 ELSE 0
    [] board = "near two wins" -> IF y \in {0, 1} /\ x \in {0, 1} THEN 1024 ELSE 0
    [] board = "full columns" -> Pow2(x + 1)
    [] board = "chequered" ->
         IF x = Size - 1 /\ y = Size - 1 THEN 0 ELSE IF (x + y) % 2 = 0 THEN 2 ELSE 4

\* the grid of a board, its blocks numbered row by row
GridOfBoard(board) ==
  [size |-> Size,
   rows |-> [r \in 1..Size |-> [c \in 1..Size |->
     IF BoardValue(board, c - 1, r - 1) = 0 THEN makeEmptyCell
     ELSE [block |-> [id |-> Cardinality({k \in 1..((r - 1) * Size + c) :
                                           BoardValue(board, (k - 1) % Size, (k - 1) \div Size) # 0}),
                      value |-> BoardValue(board, c - 1, r - 1), isNew |-> FALSE],
           mergedBlock |-> NoBlock]]]]

GamesInProgress ==
  {GridOfBoard(board) : board \in {"near win", "near two wins", "full columns", "chequered"}}

NoLine == <<>>

LineIdle == lineDir = 0 /\ lineIn = NoLine /\ lineOut = NoLine

NoCall == [fn |-> "none"]

BoardIdle == boardIn = makeEmptyGrid(0) /\ boardCall = NoCall /\ boardOut = FALSE

Init ==
  /\ \/ \E x \in 0..(Size - 1), y \in 0..(Size - 1) :
          /\ phase = initReducer(Size, x, y, 1).phase
          /\ grid = initReducer(Size, x, y, 1).grid
     \/ /\ phase = "INPUT"
        /\ grid \in GamesInProgress
  /\ animationCompleteCount = 0
  /\ running = StartedAnimations(phase, grid)
  /\ fault = "none"
  /\ rounds = 0
  /\ restarts = 0
  /\ lastEvent = [kind |-> "none", phase |-> phase]
  /\ staleGrid = grid
  /\ LineIdle
  /\ BoardIdle

Next ==
  \/ \E id \in running : AnimationComplete(id)
  \/ \E key \in Keys : KeyDown(key)
  \/ TestWonHandler
  \/ SpawnHandler
  \/ TestGameOverHandler
  \/ AcknowledgeHandler

Spec == Init /\ [][Next]_vars

(***************************************************************************)
(* The same program when every tween that runs completes in the end (gsap  *)
(* calls onComplete of a tween it is not told to kill) and every effect    *)
(* of a render runs (React runs the effects of a committed render).  The   *)
(* WON and GAME_OVER handlers wait for the player to dismiss the alert.    *)
(***************************************************************************)
Fairness ==
  /\ WF_vars(\E id \in running : AnimationComplete(id))
  /\ WF_vars(TestWonHandler)
  /\ WF_vars(SpawnHandler)
  /\ WF_vars(TestGameOverHandler)

SpecFair == Init /\ [][Next]_vars /\ Fairness

(***************************************************************************)
(* The same program with a collaborator that calls the completion entry    *)
(* point once more than it has tweens: a signal delivered when no tween is *)
(* running, so in excess of those the round expected.                      *)
(***************************************************************************)
\* no tween is running: every completion the round last started expected
\* has been delivered
RoundOver == running = {}

StraySignal ==
  /\ Alive
  /\ RoundOver
  /\ handleBoxAnimationComplete(running)
  /\ lastEvent' = [kind |-> "stray", phase |-> phase]
  /\ UNCHANGED <<rounds, restarts, lineVars, boardVars>>

NextStray == Next \/ StraySignal

SpecStray == Init /\ [][NextStray]_vars

(***************************************************************************)
(* The same program with RESTART dispatched from outside the WON and       *)
(* GAME_OVER handlers, in whatever phase the reducer is.                   *)
(***************************************************************************)
Restart ==
  /\ Alive
  /\ restarts < MaxRestarts
  /\ \E x \in 0..(grid.size - 1), y \in 0..(grid.size - 1) :
       Dispatch([type |-> "RESTART", x |-> x, y |-> y, id |-> 1])
  /\ rounds' = 0
  /\ restarts' = restarts + 1
  /\ lastEvent' = [kind |-> "restart", phase |-> phase]
  /\ UNCHANGED <<animationCompleteCount, lineVars, boardVars>>

NextRestart == Next \/ Restart

SpecRestart == Init /\ [][NextRestart]_vars

(***************************************************************************)
(* The merge resolver on its own: a line of LineLen cells, each empty or   *)
(* holding a block of value 2 or 4, resolved in direction +1 or -1.        *)
(***************************************************************************)
LineValues == {0, 2, 4}

\* the cell at JavaScript index i of a line with the given values; a block's
\* id is its index plus one
LineOfValues(values) ==
  [i \in 1..Len(values) |->
     IF values[i] = 0 THEN makeEmptyCell
     ELSE [block |-> [id |-> i, value |-> values[i], isNew |-> FALSE], mergedBlock |-> NoBlock]]

GameIdle ==
  /\ phase = "INPUT"
  /\ grid = makeEmptyGrid(Size)
  /\ animationCompleteCount = 0
  /\ running = {}
  /\ fault = "none"
  /\ rounds = 0
  /\ restarts = 0
  /\ lastEvent = [kind |-> "none", phase |-> "INPUT"]
  /\ staleGrid = grid

InitLine ==
  /\ GameIdle
  /\ BoardIdle
  /\ lineDir \in {1, -1}
  /\ \E values \in [1..LineLen -> LineValues] : lineIn = LineOfValues(values)
  /\ lineOut = NoLine

ResolveLine ==
  /\ lineOut = NoLine
  /\ lineOut' = resolveColumnOrRowInDirection(lineDir, lineIn)
  /\ UNCHANGED <<lineDir, lineIn, gameVars, boardVars>>

NextLine == ResolveLine

SpecLine == InitLine /\ [][NextLine]_vars

(***************************************************************************)
(* findBlockPairs on its own: a compacted line of at most LineLen blocks   *)
(* of value 2, 4 or 8 is paired in direction +1, and the line reversed in  *)
(* direction -1.                                                           *)
(***************************************************************************)
PairValues == {2, 4, 8}

\* arr.slice().reverse()
Reverse(arr) == [i \in 1..Len(arr) |-> arr[Len(arr) + 1 - i]]

InitPairs ==
  /\ GameIdle
  /\ BoardIdle
  /\ lineDir = 0
  /\ \E length \in 0..LineLen :
       \E values \in [1..length -> PairValues] : lineIn = LineOfValues(values)
  /\ lineOut = NoLine

\* the results of the two calls: of direction +1 on the line, and of
\* direction -1 on the line reversed
PairLine ==
  /\ lineOut = NoLine
  /\ lineOut' = <<findBlockPairs(1, pluckBlocks(lineIn)),
                  findBlockPairs(-1, Reverse(pluckBlocks(lineIn)))>>
  /\ UNCHANGED <<lineDir, lineIn, gameVars, boardVars>>

NextPairs == PairLine

SpecPairs == InitPairs /\ [][NextPairs]_vars

(***************************************************************************)
(* The grid utilities on their own: a grid is drawn, and one utility is    *)
(* called on it.  The grids are all those of Size x Size cells over two    *)
(* sets of values, and the 6 x 6 grid of the scenario tests of             *)
(* gridUtils.test.ts.                                                      *)
(***************************************************************************)
\* values of the cells of a drawn grid (0: an empty cell), low and high
LowValues == {0, 2, 4}

HighValues == {0, 2048, 4096}

\* the grid whose cell {x, y} holds the value values[y * size + x + 1]; a
\* block's id is that index
GridOfValues(size, values) ==
  [size |-> size,
   rows |-> [r \in 1..size |-> [c \in 1..size |->
     IF values[(r - 1) * size + c] = 0 THEN makeEmptyCell
     ELSE [block |-> [id |-> (r - 1) * size + c, value |-> values[(r - 1) * size + c],
                      isNew |-> FALSE],
           mergedBlock |-> NoBlock]]]]

\* the values of a grid, row by row
ValuesOfGrid(g) == [r \in 1..g.size |-> [c \in 1..g.size |-> g.rows[r][c].block.value]]

\* mockGrid of the scenario tests
ScenarioValues ==
  <<0, 0, 2, 0, 0, 2,
    0, 2, 0, 0, 0, 0,
    0, 0, 0, 0, 0, 0,
    0, 4, 0, 0, 0, 2,
    0, 0, 0, 2, 0, 0,
    0, 0, 0, 0, 0, 0>>

ScenarioGrid == GridOfValues(6, ScenarioValues)

\* mockGridMoveUp, mockGridMoveDown, mockGridMoveLeft and mockGridMoveRight
mockGridMoved(direction) ==
  CASE direction = [x |-> 0, y |-> -1] ->
         <<<<0, 2, 2, 2, 0, 4>>,
           <<0, 4, 0, 0, 0, 0>>,
           <<0, 0, 0, 0, 0, 0>>,
           <<0, 0, 0, 0, 0, 0>>,
           <<0, 0, 0, 0, 0, 0>>,
           <<0, 0, 0, 0, 0, 0>>>>
    [] direction = [x |-> 0, y |-> 1] ->
         <<<<0, 0, 0, 0, 0, 0>>,
           <<0, 0, 0, 0, 0, 0>>,
           <<0, 0, 0, 0, 0, 0>>,
           <<0, 0, 0, 0, 0, 0>>,
           <<0, 2, 0, 0, 0, 0>>,
           <<0, 4, 2, 2, 0, 4>>>>
    [] direction = [x |-> -1, y |-> 0] ->
         <<<<4, 0, 0, 0, 0, 0>>,
           <<2, 0, 0, 0, 0, 0>>,
           <<0, 0, 0, 0, 0, 0>>,
           <<4, 2, 0, 0, 0, 0>>,
           <<2, 0, 0, 0, 0, 0>>,
           <<0, 0, 0, 0, 0, 0>>>>
    [] direction = [x |-> 1, y |-> 0] ->
         <<<<0, 0, 0, 0, 0, 4>>,
           <<0, 0, 0, 0, 0, 2>>,
           <<0, 0, 0, 0, 0, 0>>,
           <<0, 0, 0, 0, 4, 2>>,
           <<0, 0, 0, 0, 0, 2>>,
           <<0, 0, 0, 0, 0, 0>>>>

\* iterateCells with an iterator that notes the position it is called with
\* and returns false at its stopAfter-th call: the positions it has noted
iterateCellsUntil(g, stopAfter) ==
  SubSeq(IterPositions(g.size), 1,
         IF stopAfter < g.size * g.size THEN stopAfter ELSE g.size * g.size)

InitBoard ==
  /\ GameIdle
  /\ LineIdle
  /\ \/ \E values \in [1..(Size * Size) -> LowValues] : boardIn = GridOfValues(Size, values)
     \/ \E values \in [1..(Size * Size) -> HighValues] : boardIn = GridOfValues(Size, values)
     \/ boardIn = ScenarioGrid
  /\ boardCall = NoCall
  /\ boardOut = FALSE

\* what a call that throws leaves in place of a result
Thrown == [thrown |-> TRUE]

\* the direction vectors a caller can hand over: each axis -1, 0 or 1
Vectors == {[x |-> x, y |-> y] : x \in {-1, 0, 1}, y \in {-1, 0, 1}}

ResolveBoard(direction) ==
  /\ boardCall = NoCall
  /\ boardCall' = [fn |-> "resolveCellsInDirection", direction |-> direction]
  /\ boardOut' = IF resolveCellsInDirectionThrows(direction) THEN Thrown
                 ELSE resolveCellsInDirection(direction, boardIn)
  /\ UNCHANGED <<boardIn, gameVars, lineVars>>

TestLost ==
  /\ boardCall = NoCall
  /\ boardCall' = [fn |-> "hasLost"]
  /\ boardOut' = hasLost(boardIn)
  /\ UNCHANGED <<boardIn, gameVars, lineVars>>

TestWon ==
  /\ boardCall = NoCall
  /\ boardCall' = [fn |-> "hasWon"]
  /\ boardOut' = hasWon(boardIn)
  /\ UNCHANGED <<boardIn, gameVars, lineVars>>

FindEmpty ==
  /\ boardCall = NoCall
  /\ boardCall' = [fn |-> "findEmptyCellPositions"]
  /\ boardOut' = findEmptyCellPositions(boardIn)
  /\ UNCHANGED <<boardIn, gameVars, lineVars>>

IterateCells(stopAfter) ==
  /\ boardCall = NoCall
  /\ boardCall' = [fn |-> "iterateCells", stopAfter |-> stopAfter]
  /\ boardOut' = iterateCellsUntil(boardIn, stopAfter)
  /\ UNCHANGED <<boardIn, gameVars, lineVars>>

NextBoard ==
  \/ \E direction \in Vectors : ResolveBoard(direction)
  \/ TestLost
  \/ TestWon
  \/ FindEmpty
  \/ \E stopAfter \in {1, Size + 1} : IterateCells(stopAfter)

SpecBoard == InitBoard /\ [][NextBoard]_vars

(***************************************************************************)
(* The grid accessors called with any index from 0 to size, so also one    *)
(* past the end.  JavaScript reads undefined at an index an array lacks    *)
(* and appends on an assignment at its length; reading or assigning a      *)
(* property of undefined throws a TypeError.  An outcome tells whether the *)
(* call threw, whether what it returned is or holds undefined, and the     *)
(* grid once the call is over.                                             *)
(***************************************************************************)
InRange(index, size) == index >= 0 /\ index < size

Outcome(throws, undefined, after) == [throws |-> throws, undefined |-> undefined, grid |-> after]

\* arr[index] = item of JavaScript, for an index from 0 to arr.length
ArrayAssign(arr, index, item) ==
  IF index = Len(arr) THEN Append(arr, item) ELSE [arr EXCEPT ![index + 1] = item]

\* grid.rows[position.y][position.x]
getCellAtOutcome(position, g) ==
  IF ~InRange(position.y, Len(g.rows)) THEN Outcome(TRUE, FALSE, g)
  ELSE Outcome(FALSE, ~InRange(position.x, Len(g.rows[position.y + 1])), g)

\* grid.rows[position.y][position.x] = cell
setCellAtOutcome(position, cell, g) ==
  IF ~InRange(position.y, Len(g.rows)) THEN Outcome(TRUE, FALSE, g)
  ELSE Outcome(FALSE, FALSE,
         IF InRange(position.x, Len(g.rows[position.y + 1])) THEN setCellAt(position, cell, g)
         ELSE [g EXCEPT !.rows[position.y + 1] = ArrayAssign(@, position.x, cell)])

\* grid.rows[position.y][position.x].block = block
setBlockAtOutcome(position, block, g) ==
  IF ~InRange(position.y, Len(g.rows)) THEN Outcome(TRUE, FALSE, g)
  ELSE IF ~InRange(position.x, Len(g.rows[position.y + 1])) THEN Outcome(TRUE, FALSE, g)
  ELSE Outcome(FALSE, FALSE, setBlockAt(position, block, g))

\* grid.rows[y]
getRowAtOutcome(y, g) == Outcome(FALSE, ~InRange(y, Len(g.rows)), g)

\* grid.rows[y] = row
setRowAtOutcome(y, row, g) ==
  Outcome(FALSE, FALSE,
    IF InRange(y, Len(g.rows)) THEN setRowAt(y, row, g)
    ELSE [g EXCEPT !.rows = ArrayAssign(@, y, row)])

\* grid.rows.map((row) => row[x])
getColumnAtOutcome(x, g) ==
  Outcome(FALSE, \E y \in 1..Len(g.rows) : ~InRange(x, Len(g.rows[y])), g)

\* column.forEach((cell, y) => { grid.rows[y][x] = cell })
setColumnAtOutcome(x, column, g) ==
  Outcome(FALSE, FALSE,
    IF \A y \in 1..Len(g.rows) : InRange(x, Len(g.rows[y])) THEN setColumnAt(x, column, g)
    ELSE [g EXCEPT !.rows = [y \in 1..Len(g.rows) |-> ArrayAssign(g.rows[y], x, column[y])]])

Accessors ==
  {"getCellAt", "setCellAt", "setBlockAt", "getRowAt", "setRowAt", "getColumnAt", "setColumnAt"}

\* the cell, the block and the line of cells the setters are handed
GivenBlock == [id |-> 99, value |-> 2, isNew |-> FALSE]

GivenCell == [block |-> GivenBlock, mergedBlock |-> NoBlock]

GivenLine(size) == [i \in 1..size |-> GivenCell]

AccessOutcome(fn, position, g) ==
  CASE fn = "getCellAt" -> getCellAtOutcome(position, g)
    [] fn = "setCellAt" -> setCellAtOutcome(position, GivenCell, g)
    [] fn = "setBlockAt" -> setBlockAtOutcome(position, GivenBlock, g)
    [] fn = "getRowAt" -> getRowAtOutcome(position.y, g)
    [] fn = "setRowAt" -> setRowAtOutcome(position.y, GivenLine(g.size), g)
    [] fn = "getColumnAt" -> getColumnAtOutcome(position.x, g)
    [] fn = "setColumnAt" -> setColumnAtOutcome(position.x, GivenLine(g.size), g)

\* the index an accessor uses is outside [0, size)
OutOfRange(fn, position, size) ==
  CASE fn \in {"getCellAt", "setCellAt", "setBlockAt"} ->
         ~InRange(position.x, size) \/ ~InRange(position.y, size)
    [] fn \in {"getRowAt", "setRowAt"} -> ~InRange(position.y, size)
    [] fn \in {"getColumnAt", "setColumnAt"} -> ~InRange(position.x, size)

InitAccess ==
  /\ GameIdle
  /\ LineIdle
  /\ \E values \in [1..(Size * Size) -> {0, 2}] : boardIn = GridOfValues(Size, values)
  /\ boardCall = NoCall
  /\ boardOut = FALSE

AccessBoard(fn, position) ==
  /\ boardCall = NoCall
  /\ boardCall' = [fn |-> fn, position |-> position]
  /\ boardOut' = AccessOutcome(fn, position, boardIn)
  /\ UNCHANGED <<boardIn, gameVars, lineVars>>

NextAccess ==
  \E fn \in Accessors, x \in 0..Size, y \in 0..Size : AccessBoard(fn, [x |-> x, y |-> y])

SpecAccess == InitAccess /\ [][NextAccess]_vars

(***************************************************************************)
(* Properties of the phase machine and of the aggregator.                  *)
(***************************************************************************)
PhaseTable ==
  {<<"INIT", "INPUT">>, <<"INPUT", "ACTIVE">>, <<"ACTIVE", "TEST_WON">>,
   <<"TEST_WON", "WON">>, <<"TEST_WON", "SPAWN">>, <<"SPAWN", "TEST_GAME_OVER">>,
   <<"TEST_GAME_OVER", "GAME_OVER">>, <<"TEST_GAME_OVER", "INPUT">>,
   <<"WON", "INIT">>, <<"GAME_OVER", "INIT">>}

\* C1: every change of the phase is one of the transitions of the table
C1_PhaseFollowsTable == [][phase' # phase => <<phase, phase'>> \in PhaseTable]_vars

\* a game that was won and acknowledged is back in INIT
C1_Witness == phase = "INIT" /\ lastEvent.kind = "handler" /\ lastEvent.phase = "WON"

\* the grid CLEAR_TRANSIENT_STATE leaves: no mergedBlock, no block marked new
Cleared(g) ==
  [g EXCEPT !.rows = [y \in 1..g.size |-> [x \in 1..g.size |->
     [block |-> IF g.rows[y][x].block = NoBlock THEN NoBlock
                ELSE [g.rows[y][x].block EXCEPT !.isNew = FALSE],
      mergedBlock |-> NoBlock]]]]

\* C2: in ACTIVE with k visible entities the phase stays ACTIVE until the k-th
\* completion, which advances once to TEST_WON with the counter back at 0; in
\* INIT and SPAWN the first completion advances to INPUT and TEST_GAME_OVER
C2_AggregatorCounts ==
  [][lastEvent'.kind = "complete" =>
       LET k == boxCount(grid)
           delivered == k - Cardinality(running)
       IN  /\ phase = "ACTIVE" /\ delivered + 1 < k =>
                /\ phase' = "ACTIVE"
                /\ grid' = grid
                /\ animationCompleteCount' = delivered + 1
           /\ phase = "ACTIVE" /\ delivered + 1 = k =>
                /\ phase' = "TEST_WON"
                /\ grid' = Cleared(grid)
                /\ animationCompleteCount' = 0
           /\ phase = "INIT" => phase' = "INPUT" /\ animationCompleteCount' = 0
           /\ phase = "SPAWN" => phase' = "TEST_GAME_OVER" /\ animationCompleteCount' = 0
           /\ phase \in {"ACTIVE", "INIT", "SPAWN"}]_vars

\* the last of at least three completions of an ACTIVE round has advanced the phase
C2_Witness ==
  /\ phase = "TEST_WON"
  /\ lastEvent = [kind |-> "complete", phase |-> "ACTIVE"]
  /\ boxCount(grid) >= 3

\* C3: a further completion signal after the aggregator has fired for a round
\* fires no other phase advance
C3_NoStrayAdvance ==
  [][RoundOver /\ lastEvent'.kind = "stray" => phase' = phase]_vars

\* C4: a RESTART leaves the completion counter at 0, and the new game's INIT
\* advances to INPUT on its one fresh completion
C4_RestartResetsAggregator ==
  [][/\ lastEvent'.kind = "restart" => animationCompleteCount' = 0
     /\ phase = "INIT" /\ lastEvent'.kind = "complete" => phase' = "INPUT"]_vars

NewBlocks(g) == {cell.block : cell \in {c \in Cells(g) : c.block.isNew}}

RECURSIVE SumFrom(_, _)
SumFrom(g, k) ==
  IF k > g.size * g.size THEN 0
  ELSE getCellAt(IterPositions(g.size)[k], g).block.value + SumFrom(g, k + 1)

\* the sum of the board's block values
BoardSum(g) == SumFrom(g, 1)

\* positions whose cell differs between two grids
ChangedPositions(g, h) ==
  {k \in 1..(g.size * g.size) :
     getCellAt(IterPositions(g.size)[k], g) # getCellAt(IterPositions(g.size)[k], h)}

\* C5: whenever the SPAWN handler has run, the round has exactly one new block,
\* of value 2, put in a cell that was empty with every other cell kept, and the
\* board is worth 2 more when TEST_GAME_OVER is reached than it was without it
C5_SpawnInsertsOne ==
  [][/\ phase = "SPAWN" /\ lastEvent'.kind = "handler" =>
          /\ fault' = "none"
          /\ Cardinality(NewBlocks(grid')) = 1
          /\ \A block \in NewBlocks(grid') : block.value = 2
          /\ \/ grid' = grid
             \/ /\ NewBlocks(grid) = {}
                /\ \E k \in 1..(grid.size * grid.size) :
                     /\ ChangedPositions(grid, grid') = {k}
                     /\ getCellAt(IterPositions(grid.size)[k], grid) = makeEmptyCell
          /\ BoardSum(grid') = BoardSum(Cleared(grid)) - 2 * Cardinality(NewBlocks(grid)) + 2
     /\ phase = "SPAWN" /\ phase' = "TEST_GAME_OVER" =>
          /\ Cardinality(NewBlocks(grid)) = 1
          /\ BoardSum(grid') = BoardSum(grid)]_vars

UnexpectedPhases == {"INPUT", "TEST_WON", "WON", "TEST_GAME_OVER", "GAME_OVER"}

\* C6: a completion signal in INPUT, TEST_WON, WON, TEST_GAME_OVER or GAME_OVER
\* raises the protocol fault and leaves phase and grid as they were
C6_SignalOutOfPhaseFaults ==
  [][lastEvent'.kind \in {"stray", "complete"} /\ phase \in UnexpectedPhases =>
       fault' = "protocol" /\ phase' = phase /\ grid' = grid]_vars

\* a signal met the phase INPUT and threw
C6_Witness ==
  /\ lastEvent = [kind |-> "stray", phase |-> "INPUT"]
  /\ fault = "protocol"
  /\ phase = "INPUT"

Directions == {KEY_DIRECTION_MAP[key] : key \in DOMAIN KEY_DIRECTION_MAP}

\* C7: a key pressed outside INPUT changes neither phase nor grid, and the
\* phase becomes ACTIVE only by a directional input in INPUT that resolves
\* the grid in its direction
C7_InputOnlyInInput ==
  [][/\ lastEvent'.kind = "key" /\ phase # "INPUT" => phase' = phase /\ grid' = grid
     /\ phase' = "ACTIVE" /\ phase # "ACTIVE" =>
          /\ lastEvent'.kind = "key"
          /\ phase = "INPUT"
          /\ \E direction \in Directions : grid' = resolveCellsInDirection(direction, grid)]_vars

\* a key was pressed while the spawned block was being shown, after a move
C7_Witness ==
  /\ lastEvent = [kind |-> "key", phase |-> "SPAWN"]
  /\ phase = "SPAWN"
  /\ rounds >= 1

\* no cell of the grid has a mergedBlock
NoMergedBlock(g) == \A y \in 1..g.size, x \in 1..g.size : g.rows[y][x].mergedBlock = NoBlock

\* C18: outside ACTIVE no cell has a mergedBlock; a mergedBlock appears only
\* when a directional input takes INPUT to ACTIVE, and the step that leaves
\* ACTIVE, the transient-clear of the last completion, leaves none
C18_MergedOnlyInActive ==
  /\ [](phase # "ACTIVE" => NoMergedBlock(grid))
  /\ [][/\ NoMergedBlock(grid) /\ ~NoMergedBlock(grid') =>
            phase = "INPUT" /\ phase' = "ACTIVE" /\ lastEvent'.kind = "key"
        /\ phase = "ACTIVE" /\ phase' # "ACTIVE" =>
            lastEvent'.kind = "complete" /\ grid' = Cleared(grid)]_vars

\* the transient-clear that left ACTIVE was applied to a grid with a mergedBlock
C18_Witness ==
  /\ phase = "TEST_WON"
  /\ lastEvent = [kind |-> "complete", phase |-> "ACTIVE"]
  /\ ~NoMergedBlock(staleGrid)
  /\ NoMergedBlock(grid)

\* the blocks and mergedBlocks the cells of the grid hold, each with its place
HeldBlocks(g) ==
  {<<p[1], p[2], "block", g.rows[p[1]][p[2]].block.id>> :
     p \in {q \in (1..g.size) \X (1..g.size) : g.rows[q[1]][q[2]].block # NoBlock}}
  \cup {<<p[1], p[2], "mergedBlock", g.rows[p[1]][p[2]].mergedBlock.id>> :
     p \in {q \in (1..g.size) \X (1..g.size) : g.rows[q[1]][q[2]].mergedBlock # NoBlock}}

\* C19: no two of the blocks and mergedBlocks of the grid have the same id,
\* and the visible entities have pairwise distinct ids
C19_IdsDistinct ==
  LET held == HeldBlocks(grid)
      view == useBoxViewData(grid)
  IN  /\ Cardinality({entry[4] : entry \in held}) = Cardinality(held)
      /\ Cardinality({view[i].id : i \in 1..Len(view)}) = Len(view)

\* a move has merged a pair on a board of at least three entities
C19_Witness ==
  /\ phase = "ACTIVE"
  /\ ~NoMergedBlock(grid)
  /\ boxCount(grid) >= 3

\* C20: a step of the reducer leaves the grid of the state it was applied to
\* as it was: after ADD_NEW_BLOCK that grid still has, at the position of the
\* spawn, a cell without a block
C20_ReducerKeepsSnapshot ==
  [][phase' # phase \/ grid' # grid => staleGrid' = grid]_vars

\* the positions of the grid whose cell has a block
BlockPositions(g) ==
  {p \in (1..g.size) \X (1..g.size) : g.rows[p[2]][p[1]].block # NoBlock}

\* C24: a RESTART, in whatever state, leaves phase INIT and a grid of the size
\* it had with one block, of value 2 and new, inside it, every other cell
\* empty and no mergedBlock
C24_RestartReinitializes ==
  [][lastEvent'.kind = "restart" \/ (lastEvent'.kind = "handler" /\ phase \in {"WON", "GAME_OVER"})
     => /\ phase' = "INIT"
        /\ grid'.size = grid.size
        /\ Len(grid'.rows) = grid.size
        /\ \A y \in 1..grid.size : Len(grid'.rows[y]) = grid.size
        /\ Cardinality(BlockPositions(grid')) = 1
        /\ \A p \in BlockPositions(grid') :
             /\ grid'.rows[p[2]][p[1]].block.value = 2
             /\ grid'.rows[p[2]][p[1]].block.isNew
        /\ NoMergedBlock(grid')]_vars

\* a game that was lost on a full board was restarted
C24_Witness ==
  /\ lastEvent = [kind |-> "handler", phase |-> "GAME_OVER"]
  /\ phase = "INIT"
  /\ BlockPositions(staleGrid) = (1..Size) \X (1..Size)

(***************************************************************************)
(* Properties of the merge resolver (SpecLine).                            *)
(***************************************************************************)
Resolved == lineOut # NoLine

MergedCells == {i \in 1..Len(lineOut) : lineOut[i].mergedBlock # NoBlock}

\* the block of the line resolved that carries the id
InputBlock(id) == lineIn[id].block

\* of two indices of the line, the first is nearer the edge the direction names
Nearer(direction, i, j) == IF direction = 1 THEN i > j ELSE i < j

\* C8 (as the spec states it): a merged cell's block has the sum of the pair's
\* values and the id of the member nearer the destination edge, and its
\* mergedBlock is the other member
C8_MergeKeepsNearerId ==
  Resolved =>
    \A i \in MergedCells :
      /\ lineOut[i].block.value =
           InputBlock(lineOut[i].block.id).value + InputBlock(lineOut[i].mergedBlock.id).value
      /\ lineOut[i].mergedBlock = InputBlock(lineOut[i].mergedBlock.id)
      /\ Nearer(lineDir, lineOut[i].block.id, lineOut[i].mergedBlock.id)

\* C8 (amended): a merged cell's block has the sum of the pair's values and the
\* id of the member farther from the destination edge, and its mergedBlock is
\* the member nearer that edge
C8_MergeKeepsFartherId ==
  Resolved =>
    \A i \in MergedCells :
      /\ lineOut[i].block.value =
           InputBlock(lineOut[i].block.id).value + InputBlock(lineOut[i].mergedBlock.id).value
      /\ lineOut[i].mergedBlock = InputBlock(lineOut[i].mergedBlock.id)
      /\ Nearer(lineDir, lineOut[i].mergedBlock.id, lineOut[i].block.id)

\* a pair was merged in direction +1
C8_Witness == Resolved /\ lineDir = 1 /\ MergedCells # {}

\* ids of the blocks of a line, in index order
InputIds == SelectSeq([i \in 1..Len(lineIn) |-> lineIn[i].block.id], LAMBDA id : id # 0)

\* how often an id occurs in the line resolved, as a block or as a mergedBlock
Occurrences(id) ==
  Cardinality({i \in 1..Len(lineOut) : lineOut[i].block.id = id})
  + Cardinality({i \in 1..Len(lineOut) : lineOut[i].mergedBlock.id = id})

\* two ids are next to each other in the compacted line
AdjacentIds(a, b) ==
  \E k \in 1..(Len(InputIds) - 1) :
    \/ InputIds[k] = a /\ InputIds[k + 1] = b
    \/ InputIds[k] = b /\ InputIds[k + 1] = a

\* C9: every input block is in exactly one group: its id occurs once in the
\* line resolved, and every value of that line is an input value or the sum
\* of two adjacent equal input values
C9_EachBlockOnce ==
  Resolved =>
    /\ \A k \in 1..Len(InputIds) : Occurrences(InputIds[k]) = 1
    /\ \A i \in 1..Len(lineOut) :
         /\ lineOut[i].block.id \in {0} \cup {InputIds[k] : k \in 1..Len(InputIds)}
         /\ lineOut[i].mergedBlock.id \in {0} \cup {InputIds[k] : k \in 1..Len(InputIds)}
         /\ lineOut[i].block = NoBlock => lineOut[i].mergedBlock = NoBlock
         /\ lineOut[i].block # NoBlock /\ lineOut[i].mergedBlock = NoBlock =>
              lineOut[i].block = InputBlock(lineOut[i].block.id)
         /\ lineOut[i].mergedBlock # NoBlock =>
              /\ AdjacentIds(lineOut[i].block.id, lineOut[i].mergedBlock.id)
              /\ InputBlock(lineOut[i].block.id).value
                   = InputBlock(lineOut[i].mergedBlock.id).value
              /\ lineOut[i].block.value = 2 * InputBlock(lineOut[i].block.id).value

\* three equal blocks were resolved into a pair and a singleton
C9_Witness ==
  /\ Resolved
  /\ Len(InputIds) = 3
  /\ \A k \in 1..3 : InputBlock(InputIds[k]).value = 2
  /\ Cardinality(MergedCells) = 1

\* the blocks of the line are n >= 3 and all of one value
IsRun == Len(InputIds) >= 3 /\ \A k \in 1..Len(InputIds) : InputBlock(InputIds[k]).value
                                                           = InputBlock(InputIds[1]).value

SingletonCells ==
  {i \in 1..Len(lineOut) : lineOut[i].block # NoBlock /\ lineOut[i].mergedBlock = NoBlock}

\* C10 (as the spec states it): a run of n >= 3 equal values resolves into at
\* most one merged pair, the other blocks staying singletons
C10_RunMergesOnce ==
  Resolved /\ IsRun =>
    /\ Cardinality(MergedCells) <= 1
    /\ Cardinality(SingletonCells) = Len(InputIds) - 2 * Cardinality(MergedCells)

\* C10 (amended): a run of n >= 3 equal values resolves into n div 2 merged
\* pairs and n mod 2 singletons
C10_RunMergesInPairs ==
  Resolved /\ IsRun =>
    /\ Cardinality(MergedCells) = Len(InputIds) \div 2
    /\ Cardinality(SingletonCells) = Len(InputIds) % 2

\* a run of four equal values was resolved
C10_Witness == Resolved /\ IsRun /\ Len(InputIds) = 4

\* the groups the line's blocks were put in: every merge makes one of two
Groups == Len(InputIds) - Cardinality(MergedCells)

\* the count cells of a line of the given length next to the edge the
\* direction names
EdgeCells(direction, length, count) ==
  IF direction = 1 THEN (length - count + 1)..length ELSE 1..count

\* C12: the line resolved has as many cells as the line given; its groups fill,
\* one per cell and without a gap, the cells next to the destination edge, and
\* every other cell has neither a block nor a mergedBlock
C12_GroupsAtDestinationEdge ==
  Resolved =>
    /\ Len(lineOut) = Len(lineIn)
    /\ \A i \in 1..Len(lineOut) :
         IF i \in EdgeCells(lineDir, Len(lineIn), Groups)
         THEN lineOut[i].block # NoBlock
         ELSE lineOut[i] = makeEmptyCell

\* a line with a gap before its last block was resolved in direction +1 into
\* two groups that leave cells empty
C12_Witness ==
  /\ Resolved
  /\ lineDir = 1
  /\ Groups = 2
  /\ MergedCells # {}
  /\ lineIn[1].block # NoBlock
  /\ lineIn[Len(lineIn)].block = NoBlock
  /\ lineOut[1] = makeEmptyCell

\* the blocks of a group
Members(group) == {group[i] : i \in 1..Len(group)}

\* C23: the groups of direction -1 on the reversed line, read from the last
\* to the first, are those of direction +1 on the line read from the first
\* to the last, each with the same blocks, and hasBlockPairs is the same
C23_PairingMirrors ==
  lineOut # NoLine =>
    LET forward == lineOut[1]
        mirrored == lineOut[2]
        count == Len(forward.blockPairs)
    IN  /\ forward.hasBlockPairs = mirrored.hasBlockPairs
        /\ Len(mirrored.blockPairs) = count
        /\ \A k \in 1..count :
             Members(forward.blockPairs[k]) = Members(mirrored.blockPairs[count + 1 - k])

\* a line of three equal blocks and one more was paired: a pair, and singletons
C23_Witness ==
  /\ lineOut # NoLine
  /\ Len(lineIn) = 4
  /\ lineIn[1].block.value = lineIn[2].block.value
  /\ lineIn[2].block.value = lineIn[3].block.value
  /\ lineIn[3].block.value # lineIn[4].block.value
  /\ lineOut[1].hasBlockPairs
  /\ Len(lineOut[1].blockPairs) = 3

(***************************************************************************)
(* Properties of the grid utilities (SpecBoard).                           *)
(***************************************************************************)
\* resolveCellsInDirection was called with one of the four unit directions
ResolvedBoard ==
  /\ boardCall.fn = "resolveCellsInDirection"
  /\ boardCall.direction \in Directions

\* C11: the block values of the grid resolveCellsInDirection returns add up
\* to what those of the grid it was given add up to
C11_ResolveConservesSum == ResolvedBoard => BoardSum(boardOut) = BoardSum(boardIn)

\* a grid was resolved with a merge
C11_Witness ==
  /\ ResolvedBoard
  /\ \E cell \in Cells(boardOut) : cell.mergedBlock # NoBlock
  /\ BoardSum(boardIn) >= 8

\* C13: the 6 x 6 scenario grid resolves upward, downward, leftward and
\* rightward to the grids the scenario gives for those directions
C13_ScenarioResolves ==
  ResolvedBoard /\ boardIn = ScenarioGrid =>
    ValuesOfGrid(boardOut) = mockGridMoved(boardCall.direction)

\* the scenario grid was resolved rightward, its fourth row into 4 and 2
C13_Witness ==
  /\ ResolvedBoard
  /\ boardIn = ScenarioGrid
  /\ boardCall.direction = [x |-> 1, y |-> 0]
  /\ ValuesOfGrid(boardOut)[4] = <<0, 0, 0, 0, 4, 2>>

\* no cell of the grid is without a block
IsFull(g) == \A y \in 1..g.size, x \in 1..g.size : g.rows[y][x].block # NoBlock

\* some row or some column of the grid has two cells next to each other whose
\* blocks have the same value
HasAdjacentEqual(g) ==
  \/ \E y \in 1..g.size, x \in 1..(g.size - 1) :
       /\ g.rows[y][x].block # NoBlock
       /\ g.rows[y][x].block.value = g.rows[y][x + 1].block.value
  \/ \E y \in 1..(g.size - 1), x \in 1..g.size :
       /\ g.rows[y][x].block # NoBlock
       /\ g.rows[y][x].block.value = g.rows[y + 1][x].block.value

\* C14: hasLost returns true exactly when the grid has no empty cell and no
\* row and no column with two adjacent cells of equal block values
C14_LostIffFullAndStuck ==
  boardCall.fn = "hasLost" => (boardOut <=> IsFull(boardIn) /\ ~HasAdjacentEqual(boardIn))

\* hasLost returned true
C14_Witness == boardCall.fn = "hasLost" /\ IsFull(boardIn) /\ boardOut = TRUE

\* the values of the blocks of a grid
BlockValues(g) ==
  {g.rows[y][x].block.value : y \in 1..g.size, x \in 1..g.size} \ {0}

\* C15: hasWon returns true exactly when some block of the grid has a value
\* of 2048 or more
C15_WonIffAtLeastThreshold ==
  boardCall.fn = "hasWon" => (boardOut <=> \E value \in BlockValues(boardIn) : value >= 2048)

\* C16: hasWon returns true exactly when some block of the grid has the value
\* 2048, whatever the other blocks are worth
C16_WonIffSomeEquals ==
  boardCall.fn = "hasWon" => (boardOut <=> \E value \in BlockValues(boardIn) : value = 2048)

\* the positions of a grid in row-major order: all x of row 0, then all x of
\* row 1, and so on
RowMajorPositions(size) ==
  [k \in 1..(size * size) |-> [x |-> (k - 1) % size, y |-> (k - 1) \div size]]

\* C17: iterateCells calls its iterator on the cells in row-major order and
\* not again once it has returned false, and findEmptyCellPositions returns
\* the positions of the cells without a block in row-major order
C17_RowMajorIteration ==
  /\ boardCall.fn = "iterateCells" =>
       \E n \in 1..(boardIn.size * boardIn.size) :
         /\ n <= boardCall.stopAfter
         /\ n = boardCall.stopAfter \/ n = boardIn.size * boardIn.size
         /\ boardOut = SubSeq(RowMajorPositions(boardIn.size), 1, n)
  /\ boardCall.fn = "findEmptyCellPositions" =>
       boardOut = SelectSeq(RowMajorPositions(boardIn.size),
                            LAMBDA position : getCellAt(position, boardIn).block = NoBlock)

\* C21: resolveCellsInDirection throws, and returns no grid, for every
\* direction with both axes nonzero and for the direction with both axes zero
C21_InvalidDirectionThrows ==
  /\ boardCall.fn = "resolveCellsInDirection"
  /\ boardCall.direction \notin Directions
  => boardOut = Thrown

\* C22: every grid accessor called with an index outside [0, size) throws,
\* returns nothing and leaves the grid as it was
C22_AccessorsBoundsChecked ==
  /\ boardCall.fn \in Accessors
  /\ OutOfRange(boardCall.fn, boardCall.position, boardIn.size)
  => boardOut.throws /\ boardOut.grid = boardIn

(***************************************************************************)
(* Properties of the phase handlers and of the rounds of a game.           *)
(***************************************************************************)
\* C25: the TEST_WON handler moves the phase to WON when hasWon(grid) and to
\* SPAWN otherwise, the TEST_GAME_OVER handler to GAME_OVER when
\* hasLost(grid) and to INPUT otherwise, and nothing else moves it from
\* these phases; in WON some block is worth 2048, and in GAME_OVER the board
\* is full and has no two adjacent cells of equal value
C25_TestsDecideNextPhase ==
  /\ [][/\ phase = "TEST_WON" /\ (lastEvent'.kind = "handler" \/ phase' # phase) =>
            phase' = IF hasWon(grid) THEN "WON" ELSE "SPAWN"
        /\ phase = "TEST_GAME_OVER" /\ (lastEvent'.kind = "handler" \/ phase' # phase) =>
            phase' = IF hasLost(grid) THEN "GAME_OVER" ELSE "INPUT"]_vars
  /\ [](phase = "WON" => 2048 \in BlockValues(grid))
  /\ [](phase = "GAME_OVER" => IsFull(grid) /\ ~HasAdjacentEqual(grid))

\* the TEST_GAME_OVER handler has found the game lost
C25_Witness ==
  /\ phase = "GAME_OVER"
  /\ lastEvent = [kind |-> "handler", phase |-> "TEST_GAME_OVER"]
  /\ hasLost(grid)

\* C26: a directional input taken in INPUT moves the phase to ACTIVE, also
\* when it leaves every cell as it was; after such a move the round goes on
\* to SPAWN and a block is spawned
C26_NoOpMoveSpawns ==
  /\ [][phase = "INPUT" /\ lastEvent'.kind = "key" /\ rounds' # rounds => phase' = "ACTIVE"]_vars
  /\ (phase = "ACTIVE" /\ lastEvent.kind = "key" /\ grid = staleGrid)
       ~> (phase = "SPAWN" /\ hasNewCell(grid))

\* C27: whenever the phase is SPAWN and no block is new, the grid has an empty
\* cell for the SPAWN handler to pick
C27_SpawnHasEmptyCell ==
  phase = "SPAWN" /\ ~hasNewCell(grid) => ~IsFull(grid)

\* C28: the completion counter is 0 outside ACTIVE, and in ACTIVE at least 0
\* and less than the number of visible entities
C28_CounterWithinRound ==
  /\ phase # "ACTIVE" => animationCompleteCount = 0
  /\ phase = "ACTIVE" =>
       animationCompleteCount >= 0 /\ animationCompleteCount < boxCount(grid)

\* all but one of the completions of a round of at least three entities are in
C28_Witness ==
  /\ phase = "ACTIVE"
  /\ boxCount(grid) >= 3
  /\ animationCompleteCount = boxCount(grid) - 1

PowersOfTwo == {2, 4, 8, 16, 32, 64, 128, 256, 512, 1024, 2048}

\* C29: every block is worth a power of two from 2 to 2048
C29_ValuesUpTo2048 == BlockValues(grid) \subseteq PowersOfTwo

\* a move has made two blocks of 2048 at once, and the game was found won
C29_Witness ==
  /\ phase = "WON"
  /\ lastEvent = [kind |-> "handler", phase |-> "TEST_WON"]
  /\ Cardinality({p \in BlockPositions(grid) : grid.rows[p[2]][p[1]].block.value = 2048}) = 2

\* C30: no step faults, and from every ACTIVE state, the tweens completing,
\* the phase comes to INPUT, WON or GAME_OVER
C30_RoundCompletes ==
  /\ [](fault = "none")
  /\ (phase = "ACTIVE") ~> (phase \in {"INPUT", "WON", "GAME_OVER"})

=============================================================================
